---- MODULE Spec2Model ----
(***************************************************************************)
(* Model of tough.py: a load-cell reader.  A Tk main thread runs the       *)
(* operator commands (start_data_collection, stop_data_collection,         *)
(* manual_zero) and the renderer's update callback, one handler at a time; *)
(* every start_data_collection spawns one collect_data thread.  The        *)
(* threads and the main thread share the module globals zero_offset,       *)
(* pressure_data, time_data and stop_event with no lock: a step of the     *)
(* model is one statement (or a run of statements that touch only locals)  *)
(* of one thread.  ReaderSpec and CodecSpec run one call of read_pressure  *)
(* on every transport behaviour of a bounded set; TransportSpec runs the   *)
(* loop's call and manual_zero's call side by side on the serial port.     *)
(*                                                                         *)
(* Measurements are kept in hundredths of a kilogram (the code's           *)
(* value / 100.0 is the integer `value` read in units of 0.01), times in   *)
(* whole clock ticks.                                                      *)
(***************************************************************************)
EXTENDS Integers, Sequences, FiniteSets, TLC

\* ---------------------------------------------------------------- bounds
MaxThreads == 2    \* start_data_collection is invoked at most this often
MaxLen     == 2    \* a loop takes a sample only while the lists stay this short
MaxClock   == 1    \* datetime.now() ranges over 0..MaxClock
MaxRaw     == 1    \* low byte of the frames the transport delivers: 0..MaxRaw
MaxRetries == 3    \* a lone call read_pressure(retries) has retries in 1..MaxRetries

\* ------------------------------------------------------- program constants
Retries     == 3   \* read_pressure(retries=3)
MinFrameLen == 5   \* len(raw_data) < 5 raises ValueError
ReadSize    == 7   \* serial.read(7)

\* Python's None, and the state of a local name that is not bound yet.
None == -1

VARIABLES
    zero_offset,    \* global zero_offset: None or a measurement
    start_time,     \* global start_time: start_data_collection sets it to None
    pressure_data,  \* global list pressure_data
    time_data,      \* global list time_data
    stop_event,     \* stop_event.is_set()
    threads,        \* the collect_data threads, in the order they were started
    mpc,            \* position of the Tk main thread
    line,           \* lengths of the x and y data update last gave line.set_data
    exported,       \* lengths of the two columns the last export read
    now,            \* datetime.now()
    mz_pressure_value, \* manual_zero's local pressure_value
    \* History of the run, read by the properties only:
    running,        \* the last lifecycle command was start (TRUE) or stop
    was_running,    \* `running` when the handler in progress was invoked
    t_start,        \* datetime.now() when start_data_collection was last invoked
    reads,          \* the loops' successful read results since the last start
    \* One call of read_pressure on its own (ReaderSpec, CodecSpec):
    scenario,       \* what the transport does in each attempt of the call
    outcome,        \* what the call returned and did; NotCalled before it
    \* Two calls of read_pressure on the one serial port (TransportSpec):
    callers,        \* position and attempt number of each caller
    wire            \* the writes and reads on the port, in order

\* The variables of the one-call and two-call specifications.
aux == <<scenario, outcome, callers, wire>>

vars == <<zero_offset, start_time, pressure_data, time_data, stop_event, threads,
          mpc, line, exported, now, mz_pressure_value, running, was_running,
          t_start, reads, aux>>

\* ------------------------------------------------------------ the Reader
\* An attempt of read_pressure is given by what the transport does in it:
\* write_ok, whether serial.write returned (send_command logs a failure and
\* returns normally); read_ok, whether serial.read returned; raw_data, the
\* bytes it returned.

\* Python's a | b on non-negative integers, bit by bit.
RECURSIVE BitOr(_, _)
BitOr(a, b) ==
    IF a = 0 THEN b
    ELSE IF b = 0 THEN a
    ELSE (IF a % 2 = 1 \/ b % 2 = 1 THEN 1 ELSE 0) + 2 * BitOr(a \div 2, b \div 2)

\* The two bytes taken low byte first.
ShiftOr_low_first(byte4, byte5) == BitOr(byte5 * 256, byte4)

\* Line 92: (byte4 << 8) | byte5 on two bytes.
ShiftOr(byte4, byte5) == BitOr(byte4 * 256, byte5)

\* A decoder that wants the whole 7-byte frame.
decode_whole_frame(att) ==
    IF ~att.read_ok \/ Len(att.raw_data) < 7
    THEN None
    ELSE att.raw_data[4] * 256 + att.raw_data[5]

\* Lines 84-95: the decoded measurement (hundredths), or None when the
\* attempt raises (read error, or fewer than 5 bytes).
decode_response(att) ==
    IF ~att.read_ok \/ Len(att.raw_data) < MinFrameLen
    THEN None
    ELSE ShiftOr(att.raw_data[4], att.raw_data[5])

\* Lines 76-99: the loop over the attempts.  `atts` gives the transport's
\* behaviour in each attempt; the result records the returned pressure, the
\* number of attempts made, the logging.error calls and the time.sleep(1)
\* calls.
RECURSIVE read_attempts(_, _, _)
read_attempts(atts, attempt, acc) ==
    IF attempt > Len(atts)
    THEN [acc EXCEPT !.pressure = None]
    ELSE LET att  == atts[attempt]
             sent == IF att.write_ok THEN 0 ELSE 1
             p    == decode_response(att)
         IN  IF p # None
             THEN [pressure |-> p,
                   attempts |-> attempt,
                   errors   |-> acc.errors + sent,
                   sleeps   |-> acc.sleeps]
             ELSE read_attempts(atts, attempt + 1,
                                [pressure |-> None,
                                 attempts |-> attempt,
                                 errors   |-> acc.errors + sent + 1,
                                 sleeps   |-> acc.sleeps + 1])

read_pressure(atts) ==
    read_attempts(atts, 1, [pressure |-> None, attempts |-> 0,
                            errors |-> 0, sleeps |-> 0])

\* The responses the modelled transport delivers: nothing (timeout), a
\* truncated frame, and full 7-byte frames 01 03 02 00 v crc crc.
ShortFrames == { <<>>, <<1, 3, 2, 0>> }
FullFrames  == { <<1, 3, 2, 0, v, 0, 0>> : v \in 0..MaxRaw }
Attempts    == [write_ok : BOOLEAN, read_ok : BOOLEAN,
                raw_data : ShortFrames \cup FullFrames]
Scenarios   == [1..Retries -> Attempts]

\* What one call read_pressure() can return.
ReadResults == { read_pressure(s).pressure : s \in Scenarios }

\* ------------------------------------------------------------ the threads
\* A collect_data thread: its position and its locals.  pressure_value,
\* current_time, adjusted_pressure and elapsed_time are assigned before
\* every use, so they are reset when the iteration ends; start_time is the
\* thread's own local (collect_data assigns it and declares only zero_offset
\* global) and lives as long as the thread.
\* signalled is history: a stop_data_collection ran while the thread was alive.
NewThread ==
    [pc |-> "loop", pressure_value |-> None, current_time |-> None,
     start_time |-> None, adjusted_pressure |-> 0, elapsed_time |-> None,
     signalled |-> FALSE]

EndIteration(t) ==
    [t EXCEPT !.pc = "loop", !.pressure_value = None, !.current_time = None,
              !.adjusted_pressure = 0, !.elapsed_time = None]

\* The thread has returned (line 163) or died of an uncaught exception.
EndThread(t, how) == [NewThread EXCEPT !.pc = how]

\* The history `reads`: the first two results of the loops' reads since the
\* last start, as long as no manual_zero succeeded and no third read followed;
\* Closed from then on.
Closed == <<None>>

Recorded(rs, pressure_value) ==
    IF rs # Closed /\ Len(rs) < 2 THEN Append(rs, pressure_value) ELSE Closed

\* The threads that hold a sample they have not finished appending.
InFlight ==
    Cardinality({i \in 1..Len(threads) :
                    threads[i].pc \in {"test", "zero", "adjust", "append_p", "append_t"}})

Alive(t) == t.pc \notin {"stopped", "crashed"}

\* The one-call and two-call variables outside their specifications.
NotCalled == [pressure |-> None, attempts |-> 0, errors |-> 0, sleeps |-> 0]

AuxIdle ==
    /\ scenario = <<>>
    /\ outcome = NotCalled
    /\ callers = <<>>
    /\ wire = <<>>

TypeOK ==
    /\ zero_offset = None \/ (zero_offset >= 0 /\ zero_offset <= 65535)
    /\ start_time = None
    /\ stop_event \in BOOLEAN
    /\ Len(threads) <= MaxThreads
    /\ now \in 0..MaxClock

SamplerInit ==
    /\ zero_offset = None      \* not defined before the first start; no reader
    /\ start_time = None
    /\ pressure_data = <<>>
    /\ time_data = <<>>
    /\ stop_event = FALSE
    /\ threads = <<>>
    /\ mpc = "idle"
    /\ line = <<0, 0>>
    /\ exported = <<0, 0>>
    /\ now = 0
    /\ mz_pressure_value = None
    /\ running = FALSE
    /\ was_running = FALSE
    /\ t_start = 0
    /\ reads = <<>>

Init == SamplerInit /\ AuxIdle

\* ------------------------------------------------- start_data_collection
\* Lines 136-137, on the Tk main thread: zero_offset = None; start_time =
\* None.  No guard on a running session.
start_136 ==
    /\ mpc = "idle"
    /\ Len(threads) < MaxThreads
    /\ zero_offset' = None
    /\ start_time' = None
    /\ mpc' = "start_138"
    /\ was_running' = running
    /\ running' = TRUE
    /\ t_start' = now
    /\ reads' = <<>>
    /\ UNCHANGED <<pressure_data, time_data, stop_event, threads, now, line, exported,
                   mz_pressure_value, aux>>

\* Line 138: pressure_data = [].
start_138 ==
    /\ mpc = "start_138"
    /\ pressure_data' = <<>>
    /\ mpc' = "start_139"
    /\ UNCHANGED <<zero_offset, start_time, time_data, stop_event, threads, now,
                   running, was_running, t_start, reads, line, exported,
                   mz_pressure_value, aux>>

\* Line 139: time_data = [].
start_139 ==
    /\ mpc = "start_139"
    /\ time_data' = <<>>
    /\ mpc' = "start_140"
    /\ UNCHANGED <<zero_offset, start_time, pressure_data, stop_event, threads, now,
                   running, was_running, t_start, reads, line, exported,
                   mz_pressure_value, aux>>

\* Lines 140-166: stop_event.clear(), then Thread(target=collect_data).start().
start_140 ==
    /\ mpc = "start_140"
    /\ stop_event' = FALSE
    /\ threads' = Append(threads, NewThread)
    /\ mpc' = "idle"
    /\ was_running' = FALSE
    /\ UNCHANGED <<zero_offset, start_time, pressure_data, time_data, now, running,
                   t_start, reads, line, exported,
                   mz_pressure_value, aux>>

start_data_collection == start_136 \/ start_138 \/ start_139 \/ start_140

\* -------------------------------------------------- stop_data_collection
\* Line 190: stop_event.set().  No guard on an idle sampler, no join.
stop_190 ==
    /\ mpc = "idle"
    /\ stop_event' = TRUE
    /\ mpc' = "stop_192"
    /\ was_running' = running
    /\ running' = FALSE
    /\ threads' = [i \in 1..Len(threads) |->
                      IF Alive(threads[i]) THEN [threads[i] EXCEPT !.signalled = TRUE]
                                           ELSE threads[i]]
    /\ UNCHANGED <<zero_offset, start_time, pressure_data, time_data, now, t_start,
                   reads, line, exported,
                   mz_pressure_value, aux>>

\* Line 192: if pressure_data and time_data; line 225 when either is empty.
stop_192 ==
    /\ mpc = "stop_192"
    /\ IF pressure_data # <<>> /\ time_data # <<>>
       THEN mpc' = "stop_193" /\ UNCHANGED was_running
       ELSE mpc' = "idle" /\ was_running' = FALSE
    /\ UNCHANGED <<zero_offset, start_time, pressure_data, time_data, stop_event,
                   threads, now, running, t_start, reads, line, exported,
                   mz_pressure_value, aux>>

\* Lines 193-225: the export reads time_data and pressure_data for the plot
\* and the DataFrame and writes them to files; of what it read the model
\* keeps the two lengths.
stop_193 ==
    /\ mpc = "stop_193"
    /\ exported' = <<Len(time_data), Len(pressure_data)>>
    /\ mpc' = "idle"
    /\ was_running' = FALSE
    /\ UNCHANGED <<zero_offset, start_time, pressure_data, time_data, stop_event,
                   threads, now, running, t_start, reads, line,
                   mz_pressure_value, aux>>

stop_data_collection == stop_190 \/ stop_192 \/ stop_193

\* ------------------------------------------------------------ manual_zero
\* Line 171: pressure_value = read_pressure().  The call blocks the main
\* thread for the settle delay, the port timeout and the backoff of every
\* attempt; the threads run on meanwhile.
zero_171 ==
    /\ mpc = "idle"
    /\ \E pressure_value \in ReadResults : mz_pressure_value' = pressure_value
    /\ mpc' = "zero_172"
    /\ UNCHANGED <<zero_offset, start_time, pressure_data, time_data, stop_event,
                   threads, now, running, was_running, t_start, reads, line,
                   exported, aux>>

\* A manual_zero that forgets the offset when its read fails.
zero_172_unset ==
    /\ mpc = "zero_172"
    /\ zero_offset' = mz_pressure_value
    /\ reads' = IF mz_pressure_value # None THEN Closed ELSE reads
    /\ mz_pressure_value' = None
    /\ mpc' = "idle"
    /\ UNCHANGED <<start_time, pressure_data, time_data, stop_event, threads,
                   now, running, was_running, t_start, line, exported, aux>>

\* Lines 172-176: on a value, zero_offset = pressure_value; on None only the
\* message "Zeroing failed".
zero_172 ==
    /\ mpc = "zero_172"
    /\ IF mz_pressure_value # None
       THEN zero_offset' = mz_pressure_value /\ reads' = Closed
       ELSE UNCHANGED <<zero_offset, reads>>
    /\ mz_pressure_value' = None
    /\ mpc' = "idle"
    /\ UNCHANGED <<start_time, pressure_data, time_data, stop_event, threads,
                   now, running, was_running, t_start, line, exported, aux>>

manual_zero == zero_171 \/ zero_172

\* ----------------------------------------------------------------- update
\* Lines 274-278: the renderer's callback, run by Tk between the handlers.
\* With a non-empty time_data it hands time_data and pressure_data to the
\* plot; of what it handed over the model keeps the two lengths.
update ==
    /\ mpc = "idle"
    /\ Len(time_data) > 0
    /\ line' = <<Len(time_data), Len(pressure_data)>>
    /\ UNCHANGED <<zero_offset, start_time, pressure_data, time_data, stop_event,
                   threads, mpc, now, running, was_running, t_start, reads, exported,
                   mz_pressure_value, aux>>

\* ----------------------------------------------------------- collect_data
\* Line 145: while not stop_event.is_set(); line 163 when it is set.
loop_145(i) ==
    /\ threads[i].pc = "loop"
    /\ threads' = [threads EXCEPT ![i] =
          IF stop_event THEN EndThread(threads[i], "stopped")
                        ELSE [threads[i] EXCEPT !.pc = "read"]]
    /\ UNCHANGED <<zero_offset, start_time, pressure_data, time_data, stop_event,
                   mpc, now, running, was_running, t_start, reads, line, exported,
                   mz_pressure_value, aux>>

\* Lines 146-148 and 159-161: pressure_value = read_pressure(); on None the
\* iteration ends; on a value, current_time = datetime.now().  The two length
\* conjuncts only bound the lists: the code reads on for ever.
loop_146(i) ==
    /\ threads[i].pc = "read"
    /\ Len(pressure_data) + InFlight < MaxLen
    /\ Len(time_data) + InFlight < MaxLen
    /\ \E pressure_value \in ReadResults :
          /\ threads' = [threads EXCEPT ![i] =
                IF pressure_value = None
                THEN EndIteration(threads[i])
                ELSE [threads[i] EXCEPT !.pc = "test",
                                        !.pressure_value = pressure_value,
                                        !.current_time = now]]
          /\ reads' = IF pressure_value = None THEN reads
                                               ELSE Recorded(reads, pressure_value)
    /\ UNCHANGED <<zero_offset, start_time, pressure_data, time_data, stop_event,
                   mpc, now, running, was_running, t_start, line, exported,
                   mz_pressure_value, aux>>

\* Line 149: if zero_offset is None.
loop_149(i) ==
    /\ threads[i].pc = "test"
    /\ threads' = [threads EXCEPT ![i].pc = IF zero_offset = None THEN "zero" ELSE "adjust"]
    /\ UNCHANGED <<zero_offset, start_time, pressure_data, time_data, stop_event,
                   mpc, now, running, was_running, t_start, reads, line, exported,
                   mz_pressure_value, aux>>

\* Lines 150-152 and 161: zero_offset = pressure_value (the global);
\* start_time = current_time (the thread's local).
loop_150(i) ==
    /\ threads[i].pc = "zero"
    /\ zero_offset' = threads[i].pressure_value
    /\ threads' = [threads EXCEPT ![i] =
          EndIteration([threads[i] EXCEPT !.start_time = threads[i].current_time])]
    /\ UNCHANGED <<start_time, pressure_data, time_data, stop_event,
                   mpc, now, running, was_running, t_start, reads, line, exported,
                   mz_pressure_value, aux>>

\* A loop that counts the elapsed time from the call of start_data_collection.
loop_154_since_start(i) ==
    /\ threads[i].pc = "adjust"
    /\ threads' = [threads EXCEPT ![i] =
          IF zero_offset = None \/ threads[i].start_time = None
          THEN EndThread(threads[i], "crashed")
          ELSE [threads[i] EXCEPT
                   !.pc = "append_p",
                   !.adjusted_pressure = threads[i].pressure_value - zero_offset,
                   !.elapsed_time = threads[i].current_time - t_start]]
    /\ UNCHANGED <<zero_offset, start_time, pressure_data, time_data, stop_event,
                   mpc, now, running, was_running, t_start, reads, line, exported,
                   mz_pressure_value, aux>>

\* Lines 154-156: adjusted_pressure = pressure_value - zero_offset raises
\* TypeError when the global is None by now; elapsed_time = (current_time -
\* start_time) raises UnboundLocalError when this thread never ran line 151.
\* Nothing catches either: the thread ends.
loop_154(i) ==
    /\ threads[i].pc = "adjust"
    /\ threads' = [threads EXCEPT ![i] =
          IF zero_offset = None \/ threads[i].start_time = None
          THEN EndThread(threads[i], "crashed")
          ELSE [threads[i] EXCEPT
                   !.pc = "append_p",
                   !.adjusted_pressure = threads[i].pressure_value - zero_offset,
                   !.elapsed_time = threads[i].current_time - threads[i].start_time]]
    /\ UNCHANGED <<zero_offset, start_time, pressure_data, time_data, stop_event,
                   mpc, now, running, was_running, t_start, reads, line, exported,
                   mz_pressure_value, aux>>

\* A loop that keeps only its latest measurement.
loop_157_latest(i) ==
    /\ threads[i].pc = "append_p"
    /\ pressure_data' = <<threads[i].adjusted_pressure>>
    /\ threads' = [threads EXCEPT ![i].pc = "append_t"]
    /\ UNCHANGED <<zero_offset, start_time, time_data, stop_event,
                   mpc, now, running, was_running, t_start, reads, line, exported,
                   mz_pressure_value, aux>>

\* Line 157: pressure_data.append(adjusted_pressure).
loop_157(i) ==
    /\ threads[i].pc = "append_p"
    /\ pressure_data' = Append(pressure_data, threads[i].adjusted_pressure)
    /\ threads' = [threads EXCEPT ![i].pc = "append_t"]
    /\ UNCHANGED <<zero_offset, start_time, time_data, stop_event,
                   mpc, now, running, was_running, t_start, reads, line, exported,
                   mz_pressure_value, aux>>

\* Lines 158 and 161: time_data.append(elapsed_time); time.sleep(0.05).
loop_158(i) ==
    /\ threads[i].pc = "append_t"
    /\ time_data' = Append(time_data, threads[i].elapsed_time)
    /\ threads' = [threads EXCEPT ![i] = EndIteration(threads[i])]
    /\ UNCHANGED <<zero_offset, start_time, pressure_data, stop_event,
                   mpc, now, running, was_running, t_start, reads, line, exported,
                   mz_pressure_value, aux>>

\* ------------------------------------------------------------------ clock
Tick ==
    /\ now < MaxClock
    /\ now' = now + 1
    /\ UNCHANGED <<zero_offset, start_time, pressure_data, time_data, stop_event,
                   threads, mpc, running, was_running, t_start, reads, line, exported,
                   mz_pressure_value, aux>>

Next ==
    \/ start_data_collection
    \/ stop_data_collection
    \/ manual_zero
    \/ update
    \/ \E i \in 1..Len(threads) : loop_145(i)
    \/ \E i \in 1..Len(threads) : loop_146(i)
    \/ \E i \in 1..Len(threads) : loop_149(i)
    \/ \E i \in 1..Len(threads) : loop_150(i)
    \/ \E i \in 1..Len(threads) : loop_154(i)
    \/ \E i \in 1..Len(threads) : loop_157(i)
    \/ \E i \in 1..Len(threads) : loop_158(i)
    \/ Tick

Spec == Init /\ [][Next]_vars

\* ------------------------------------------------- one call of read_pressure
\* The variables of the threads, which a lone call does not touch.
sampler_vars == <<zero_offset, start_time, pressure_data, time_data, stop_event,
                  threads, mpc, line, exported, now, mz_pressure_value, running,
                  was_running, t_start, reads>>

\* The transport's behaviours in a lone call: as Attempts, with frames of
\* exactly 5 bytes as well; a read that raises delivers no bytes.
ExactFrames    == { <<1, 3, 2, 0, v>> : v \in 0..MaxRaw }
ReaderAttempts ==
    { att \in [write_ok : BOOLEAN, read_ok : BOOLEAN,
               raw_data : ShortFrames \cup ExactFrames \cup FullFrames] :
          att.read_ok \/ att.raw_data = <<>> }

\* Every byte string serial.read(7) can return, over sample byte values.
Bytes   == (0..MaxRaw) \cup {128, 255}
Buffers == UNION { [1..n -> Bytes] : n \in 0..ReadSize }
Decodes == { <<[write_ok |-> TRUE, read_ok |-> TRUE, raw_data |-> buf]>> : buf \in Buffers }

\* read_pressure(retries) is about to be called, on any behaviour of the
\* transport in its attempts.
ReaderInit ==
    /\ SamplerInit
    /\ \E retries \in 1..MaxRetries : scenario \in [1..retries -> ReaderAttempts]
    /\ outcome = NotCalled
    /\ callers = <<>>
    /\ wire = <<>>

\* read_pressure(1) is about to be called; the read returns any buffer.
CodecInit ==
    /\ SamplerInit
    /\ scenario \in Decodes
    /\ outcome = NotCalled
    /\ callers = <<>>
    /\ wire = <<>>

\* Lines 76-99: the call runs to its return.
call_read_pressure ==
    /\ scenario # <<>>
    /\ outcome = NotCalled
    /\ outcome' = read_pressure(scenario)
    /\ UNCHANGED <<sampler_vars, scenario, callers, wire>>

ReaderSpec == ReaderInit /\ [][call_read_pressure]_vars

CodecSpec == CodecInit /\ [][call_read_pressure]_vars

\* ------------------------------------------------------------- properties
AliveThreads == {i \in 1..Len(threads) : Alive(threads[i])}

\* A reader is at a point where it reads both lists: update (run by Tk when
\* no handler is running) or the export of stop_data_collection.
ReaderReads == mpc = "stop_193" \/ (mpc = "idle" /\ Len(time_data) > 0)

\* C1: in every reachable state at most one sampling loop is alive.
C1_AtMostOneLoop == Cardinality(AliveThreads) <= 1

\* C2: whenever a reader reads the DataStore, the time sequence and the value
\* sequence have the same length (no record is seen half-appended).
C2_NoPartialRecord ==
    /\ ReaderReads => Len(time_data) = Len(pressure_data)
    /\ line[1] = line[2]
    /\ exported[1] = exported[2]

\* The running session was started after every earlier session was stopped.
StartedAfterStop ==
    /\ running /\ mpc = "idle" /\ Len(threads) >= 2
    /\ \A i \in 1..(Len(threads) - 1) : Alive(threads[i]) => threads[i].signalled

\* C3: a session started right after a stop has, until its own first
\* successful read, an empty DataStore and an unset ZeroOffset, and every
\* elapsed time in its DataStore is measured from its own start.
C3_RestartIsFresh ==
    StartedAfterStop =>
        /\ reads = <<>> => /\ zero_offset = None
                           /\ pressure_data = <<>>
                           /\ time_data = <<>>
        /\ \A k \in 1..Len(time_data) :
              time_data[k] >= 0 /\ time_data[k] <= now - t_start

\* No thread is between a successful read and the end of its iteration.
Settled ==
    \A i \in 1..Len(threads) : threads[i].pc \in {"loop", "read", "stopped", "crashed"}

\* C4: in a session with no manual_zero, after the first successful read raw1
\* ZeroOffset is raw1 and the DataStore is empty; after the second, raw2, the
\* DataStore holds exactly one record, of value raw2 - raw1.
C4_FirstZeroSecondSample ==
    (running /\ mpc = "idle" /\ Settled /\ reads # Closed) =>
        /\ Len(reads) = 0 => /\ zero_offset = None
                             /\ pressure_data = <<>> /\ time_data = <<>>
        /\ Len(reads) = 1 => /\ zero_offset = reads[1]
                             /\ pressure_data = <<>> /\ time_data = <<>>
        /\ Len(reads) = 2 => /\ zero_offset = reads[1]
                             /\ pressure_data = <<reads[2] - reads[1]>>
                             /\ Len(time_data) = 1

\* C5: a successful manual_zero in a running, calibrated session sets
\* ZeroOffset to the value read, leaves the DataStore as it is, and every
\* record appended afterwards is its raw value minus the new offset.
C5_ManualZeroRebases ==
    [][(manual_zero /\ running /\ zero_offset # None /\ zero_offset' # zero_offset) =>
          /\ UNCHANGED <<pressure_data, time_data>>
          /\ \A i \in 1..Len(threads) :
                threads[i].pc = "append_p" =>
                    threads[i].adjusted_pressure = threads[i].pressure_value - zero_offset'
      ]_vars

\* C6: start issued while Running is rejected: it resets nothing and starts
\* no loop.
C6_StartWhileRunningRejected ==
    [][/\ (running /\ start_136) => UNCHANGED <<zero_offset, pressure_data, time_data>>
       /\ (was_running /\ start_140) => UNCHANGED <<stop_event, threads>>
      ]_vars

\* C7: stop issued while Idle is rejected: it sets no signal and runs no
\* export.
C7_StopWhileIdleRejected ==
    [][/\ (~running /\ stop_190) => UNCHANGED stop_event
       /\ (~was_running /\ stop_192) =>
             (mpc' # "stop_193" /\ UNCHANGED <<zero_offset, pressure_data, time_data>>)
      ]_vars

\* C8: a loop that a stop was issued to finds the termination signal set at
\* its next loop-condition check, and so exits there.
C8_StoppedLoopExits ==
    \A i \in 1..Len(threads) :
        (threads[i].pc = "loop" /\ threads[i].signalled) => stop_event

\* C9: from stop until the next start the DataStore does not change.
C9_StoreFrozenAfterStop ==
    [][(~running /\ ~running') => UNCHANGED <<pressure_data, time_data>>]_vars

\* C10: no sampling loop ends by an exception.
C10_LoopNeverCrashes ==
    \A i \in 1..Len(threads) : threads[i].pc # "crashed"

\* ------------------------------------------ two calls of read_pressure
\* The loop calls read_pressure at line 146 on its thread, manual_zero at
\* line 171 on the main thread; both use the one instrument.serial and no
\* lock.  A caller's position is the next I/O statement of its attempt; the
\* interpreter may switch threads at each of them.
Callers == {"loop", "zero"}

\* A session is running, its loop is at line 146 and the operator presses
\* Zero: both calls are about to make their first attempt.
TransportInit ==
    /\ zero_offset = None /\ start_time = None
    /\ pressure_data = <<>> /\ time_data = <<>>
    /\ stop_event = FALSE
    /\ threads = <<[NewThread EXCEPT !.pc = "read"]>>
    /\ mpc = "idle"
    /\ line = <<0, 0>> /\ exported = <<0, 0>>
    /\ now = 0
    /\ mz_pressure_value = None
    /\ running = TRUE /\ was_running = FALSE /\ t_start = 0 /\ reads = <<>>
    /\ scenario = <<>>
    /\ outcome = NotCalled
    /\ callers = [c \in Callers |-> [pc |-> "send", attempt |-> 1]]
    /\ wire = <<>>

\* Lines 71-72 (send_command): serial.write(command), then the settle delay.
\* The write raises or not; either way the attempt goes on to the read.
send_71(c) ==
    /\ callers[c].pc = "send"
    /\ \E write_ok \in BOOLEAN :
          wire' = Append(wire, [by |-> c, op |-> "write", ok |-> write_ok])
    /\ callers' = [callers EXCEPT ![c].pc = "recv"]
    /\ UNCHANGED <<sampler_vars, scenario, outcome>>

\* Lines 82-95: serial.read(7) and the decoding.  The attempt returns a
\* value (the call ends) or raises.
recv_82(c) ==
    /\ callers[c].pc = "recv"
    /\ \E decoded \in BOOLEAN :
          /\ wire' = Append(wire, [by |-> c, op |-> "read", ok |-> decoded])
          /\ callers' = [callers EXCEPT ![c].pc = IF decoded THEN "done" ELSE "sleep"]
    /\ UNCHANGED <<sampler_vars, scenario, outcome>>

\* Lines 96-98, then 77 or 99: the failure is logged, the call sleeps, and
\* the next attempt begins or the call returns None.
sleep_98(c) ==
    /\ callers[c].pc = "sleep"
    /\ callers' = [callers EXCEPT ![c] =
          IF callers[c].attempt < Retries
          THEN [pc |-> "send", attempt |-> callers[c].attempt + 1]
          ELSE [callers[c] EXCEPT !.pc = "done"]]
    /\ UNCHANGED <<sampler_vars, scenario, outcome, wire>>

TransportNext ==
    \/ \E c \in Callers : send_71(c)
    \/ \E c \in Callers : recv_82(c)
    \/ \E c \in Callers : sleep_98(c)

TransportSpec == TransportInit /\ [][TransportNext]_vars

\* ----------------------------------------------- properties of read_pressure
\* The call has returned.
Called == outcome # NotCalled

\* The attempt's read returned at least 5 bytes.
Responded(att) == att.read_ok /\ Len(att.raw_data) >= 5

\* The attempts of the call whose read returned at least 5 bytes.
Answered == {k \in 1..Len(scenario) : Responded(scenario[k])}

\* The attempts the call made that did not return a value.
FailedAttempts == {k \in 1..outcome.attempts : ~Responded(scenario[k])}

\* The buffer the read of a one-attempt call returned.
Buffer == scenario[1].raw_data

\* The same attempt with byte k of the buffer replaced by b.
WithByte(k, b) == [scenario[1] EXCEPT !.raw_data[k] = b]

\* C11: for every retries >= 1 and every behaviour of the transport,
\* read_pressure makes at most `retries` attempts, stops at the first attempt
\* whose response has at least 5 bytes and returns the value decoded from that
\* response, and returns None exactly when all `retries` attempts failed.
C11_ReadStopsAtFirstFrame ==
    Called =>
        /\ outcome.attempts \in 1..Len(scenario)
        /\ \A k \in Answered :
              (\A j \in Answered : k <= j) =>
                  /\ outcome.attempts = k
                  /\ outcome.pressure = scenario[k].raw_data[4] * 256 + scenario[k].raw_data[5]
        /\ (outcome.pressure = None) <=> (Answered = {})
        /\ (Answered = {}) => outcome.attempts = Len(scenario)

\* A call with retries = 3 that returned a value from its second attempt.
C11_Witness ==
    /\ Called
    /\ Len(scenario) = 3
    /\ outcome.attempts = 2
    /\ outcome.pressure # None
    /\ Len(scenario[2].raw_data) = 5

\* C12: read_pressure records exactly one failure event (logging.error) per
\* failed attempt, whichever step of the attempt failed: a call that fails
\* twice and then gets a valid frame records 2, a call with retries = 3 that
\* always fails records 3.
C12_OneEventPerFailedAttempt ==
    Called => outcome.errors = Cardinality(FailedAttempts)

\* C16: a buffer of fewer than 5 bytes never decodes (the attempt fails);
\* a buffer of 5 to 7 bytes decodes to bytes 3 and 4 taken big-endian, a
\* number in 0..65535 that is the measurement in hundredths, whatever bytes
\* 0 to 2 and the bytes after offset 4 are.
C16_DecodeReadsBytes3And4 ==
    Called =>
        /\ Len(Buffer) < 5 => (outcome.pressure = None /\ outcome.errors = 1)
        /\ Len(Buffer) >= 5 =>
              /\ outcome.pressure = Buffer[4] * 256 + Buffer[5]
              /\ outcome.pressure >= 0 /\ outcome.pressure <= 65535
              /\ \A k \in (1..Len(Buffer)) \ {4, 5} : \A b \in Bytes :
                    decode_response(WithByte(k, b)) = outcome.pressure

\* A 6-byte buffer with both bytes of the reading set has been decoded.
C16_Witness ==
    /\ Called
    /\ Len(scenario) = 1
    /\ Len(Buffer) = 6
    /\ Buffer[4] = 1 /\ Buffer[5] = 128 /\ Buffer[1] = 255 /\ Buffer[6] = 255
    /\ outcome.pressure = 384

\* C19: read_pressure sleeps after a failed attempt only when another
\* attempt follows: the sleeps of a call are its failed attempts other than
\* attempt number `retries`, so a call that fails throughout sleeps
\* retries - 1 times and returns None without a sleep after its last failure.
C19_NoSleepAfterLastAttempt ==
    Called =>
        outcome.sleeps = Cardinality({k \in FailedAttempts : k < Len(scenario)})

\* C17: the exchanges on the serial port never interleave: a query written
\* to the port is followed there by the read of the same caller before anything else,
\* also when manual_zero calls read_pressure while the loop is inside its own
\* call.
C17_ExchangesNeverInterleave ==
    \A k \in 1..(Len(wire) - 1) :
        (wire[k].op = "write" /\ wire[k].ok) =>
            (wire[k + 1].op = "read" /\ wire[k + 1].by = wire[k].by)

\* ------------------------------------------------ properties of the session
\* C13: when the read of manual_zero fails (read_pressure returned None),
\* manual_zero leaves zero_offset as it was: its own step writes nothing.
C13_FailedZeroKeepsOffset ==
    [][(zero_172 /\ mz_pressure_value = None) => zero_offset' = zero_offset]_vars

\* manual_zero's read has failed while an offset is set in a running session.
C13_Witness ==
    /\ mpc = "zero_172"
    /\ mz_pressure_value = None
    /\ zero_offset # None
    /\ running

\* C14: with a clock that never goes back, the elapsed times in time_data
\* are non-negative and non-decreasing in the order of the list, in every
\* reachable state.
C14_ElapsedMonotonic ==
    /\ \A k \in 1..Len(time_data) : time_data[k] >= 0
    /\ \A k \in 2..Len(time_data) : time_data[k - 1] <= time_data[k]

\* xs is a prefix of ys.
IsPrefix(xs, ys) == Len(xs) <= Len(ys) /\ SubSeq(ys, 1, Len(xs)) = xs

\* C15: between one start_data_collection and the next the lists only grow
\* at the end: every step that is not a reset of start_data_collection
\* (lines 138 and 139) leaves each list a prefix of what it becomes, so no
\* record is changed or removed and no count seen by a reader decreases.
C15_AppendOnly ==
    [][~(start_138 \/ start_139) =>
          /\ IsPrefix(pressure_data, pressure_data')
          /\ IsPrefix(time_data, time_data')]_vars

\* Two records have been appended in a running session.
C15_Witness ==
    /\ running
    /\ Len(pressure_data) = 2
    /\ Len(time_data) = 2

\* C18: when manual_zero has set the offset of a running session before its
\* loop established one (the loop has no time base yet), the loop's next
\* successful read yields a record: its value is the reading less that
\* offset and its elapsed_time is defined and not negative.
C18_ManualZeroBeforeFirstRead ==
    [][\A i \in 1..Len(threads) :
          (/\ Len(threads) = 1
           /\ loop_154(i)
           /\ threads[i].start_time = None
           /\ zero_offset # None) =>
              /\ threads'[i].pc = "append_p"
              /\ threads'[i].adjusted_pressure = threads[i].pressure_value - zero_offset
              /\ threads'[i].elapsed_time >= 0]_vars

====
